---- MODULE Spec2Model ----
(***************************************************************************)
(* go-semver-release: the version computation engine.                      *)
(*                                                                         *)
(*   internal/semver/semver.go   the Semver value type                     *)
(*   commitanalyzer (part_003)   release rules, latest tag, bump loop      *)
(*                                                                         *)
(* Five specifications share the definitions below:                        *)
(*   SpecBump        the three bump operations on one Semver               *)
(*   SpecPrecedence  Semver.Precedence on triples of versions              *)
(*   SpecRules       NewCommitAnalyzer / ParseReleaseRules on documents    *)
(*   SpecTags        fetchLatestSemverTag on tag sets                      *)
(*   Spec            ComputeNewSemverNumber, run repeatedly on a repository*)
(***************************************************************************)
EXTENDS Integers, Sequences, FiniteSets, TLC

VARIABLES
    doc,              \* the release rule document handed to NewCommitAnalyzer
    analyzer,         \* the *CommitAnalyzer (Nil when construction failed)
    tags,             \* the repository's tag objects, in TagObjects() iteration order
    commits,          \* the repository's commits reachable from HEAD, newest first
    pc,               \* position of the running operation
    latestSemverTag,  \* ComputeNewSemverNumber: the tag fetchLatestSemverTag returned
    semver,           \* ComputeNewSemverNumber: the version being bumped
    newRelease,       \* ComputeNewSemverNumber: the release flag
    history,          \* ComputeNewSemverNumber: the commit log, oldest first
    idx,              \* ComputeNewSemverNumber: commits the range loop has consumed
    returned,         \* the values returned by the completed calls, in call order
    s1, s2, s3,       \* SpecBump / SpecPrecedence: the Semver values operated on
    cmp,              \* SpecPrecedence: the results of the Precedence calls
    lastBump          \* SpecBump: the bump last applied to s1 and the value before it

vars == <<doc, analyzer, tags, commits, pc, latestSemverTag, semver, newRelease,
          history, idx, returned, s1, s2, s3, cmp, lastBump>>

Nil == [nil |-> TRUE]

(***************************************************************************)
(* Bounds of the model.                                                    *)
(***************************************************************************)
MaxComponent == 2      \* SpecBump: the bump actions stop at this component value
MaxOperand == 1        \* SpecPrecedence: components of the compared versions
MaxDocRules == 2       \* SpecRules: rules in a release rule document
MaxResolveTags == 3    \* SpecTags: tag objects in the repository
MaxTags == 2           \* Spec: tag objects in the repository
MaxCommits == 2        \* Spec: commits reachable from HEAD
MaxRuns == 2           \* Spec: calls of ComputeNewSemverNumber on the repository

(***************************************************************************)
(* internal/semver/semver.go                                               *)
(***************************************************************************)
Semver(major, minor, patch, metadata) ==
    [Major |-> major, Minor |-> minor, Patch |-> patch, BuildMetadata |-> metadata]

\* Strings that pass / fail the validator's "alphanumunicode" tag.
Alphanum == {"b1", "rc2"}

\* NewSemver: builds the struct and validates it (gte=0, omitempty,alphanumunicode).
NewSemver(major, minor, patch, metadata) ==
    IF major >= 0 /\ minor >= 0 /\ patch >= 0 /\ (metadata = "" \/ metadata \in Alphanum)
    THEN [ok |-> TRUE, v |-> Semver(major, minor, patch, metadata)]
    ELSE [ok |-> FALSE, v |-> Nil]

BumpPatch(s) == [s EXCEPT !.Patch = @ + 1]

BumpMinorKeepsPatch(s) == [s EXCEPT !.Minor = @ + 1]

BumpMinor(s) == [s EXCEPT !.Patch = 0, !.Minor = @ + 1]

BumpMajor(s) == [s EXCEPT !.Patch = 0, !.Minor = 0, !.Major = @ + 1]

IsZero(s) == s.Major = s.Minor /\ s.Minor = s.Patch /\ s.Patch = 0

PrecedenceNoPatchLess(a, b) ==
    CASE a.Major > b.Major -> 1
      [] a.Major < b.Major -> -1
      [] a.Minor > b.Minor -> 1
      [] a.Minor < b.Minor -> -1
      [] a.Patch > b.Patch -> 1
      [] OTHER -> 0

\* s1.Precedence(s2): the switch takes the first case that is true.
Precedence(a, b) ==
    CASE a.Major > b.Major -> 1
      [] a.Major < b.Major -> -1
      [] a.Minor > b.Minor -> 1
      [] a.Minor < b.Minor -> -1
      [] a.Patch > b.Patch -> 1
      [] a.Patch < b.Patch -> -1
      [] OTHER -> 0

(***************************************************************************)
(* Go slices: a nil slice and an empty slice are different values.         *)
(***************************************************************************)
NilSlice == [isNil |-> TRUE, elems |-> <<>>]

Slice(elems) == [isNil |-> FALSE, elems |-> elems]

(***************************************************************************)
(* commitanalyzer: release rules                                           *)
(***************************************************************************)
\* The alternation of conventionalCommitRegex and the oneof of ReleaseRule.CommitType.
CommitTypes ==
    {"build", "chore", "ci", "docs", "feat", "fix", "perf", "refactor", "revert",
     "style", "test"}

\* The oneof of ReleaseRule.ReleaseType.
ReleaseTypes == {"major", "minor", "patch"}

ReleaseRule(type, release) == [CommitType |-> type, ReleaseType |-> release]

\* validate.Struct(rule): both fields are `required` (not "") and `oneof` their set.
ValidateRule(rule) ==
    /\ rule.CommitType # "" /\ rule.CommitType \in CommitTypes
    /\ rule.ReleaseType # "" /\ rule.ReleaseType \in ReleaseTypes

\* validate.Struct(releaseRules): the tag on Rules is `required`, which for a
\* slice holds when the slice is not nil; there is no `dive` and no `min`.
ValidateRules(releaseRules) == ~releaseRules.Rules.isNil

\* decoder.Decode(&releaseRules), its error dropped: a reader that holds no JSON
\* object leaves the pointer nil; an object without the key (or with null)
\* leaves Rules nil; an array, also an empty one, makes Rules a non-nil slice.
Decode(d) ==
    IF ~d.object THEN Nil
    ELSE [Rules |-> IF d.hasRules THEN Slice(d.rules) ELSE NilSlice]

\* ParseReleaseRules: [err, releaseRules].  validate.Struct of a nil pointer is
\* an error.
ParseReleaseRules(d) ==
    LET releaseRules == Decode(d) IN
    IF releaseRules = Nil THEN [err |-> TRUE, releaseRules |-> Nil]
    ELSE IF ~ValidateRules(releaseRules) THEN [err |-> TRUE, releaseRules |-> Nil]
    ELSE IF \E k \in 1..Len(releaseRules.Rules.elems) :
                ~ValidateRule(releaseRules.Rules.elems[k])
         THEN [err |-> TRUE, releaseRules |-> Nil]
    ELSE [err |-> FALSE, releaseRules |-> releaseRules]

\* The analyzer NewCommitAnalyzer builds (Nil with the error).
CommitAnalyzerOf(d) ==
    LET parsed == ParseReleaseRules(d) IN
    IF parsed.err THEN Nil ELSE [releaseRules |-> parsed.releaseRules]

(***************************************************************************)
(* Tag names and the semantic version grammar (semver.SemverRegex).        *)
(* A name is kept as what the regular expression sees in it: whether its   *)
(* end matches the grammar, the text before the match (a prefix such as    *)
(* "v", or the whole name when nothing matches), the three numeric groups  *)
(* and the build metadata group.                                           *)
(***************************************************************************)
TagName(prefix, major, minor, patch, build) ==
    [semver |-> TRUE, prefix |-> prefix, major |-> major, minor |-> minor,
     patch |-> patch, build |-> build]

OtherName(text) ==
    [semver |-> FALSE, prefix |-> text, major |-> 0, minor |-> 0, patch |-> 0,
     build |-> ""]

\* semverRegex.MatchString(tag.Name)
MatchString(name) == name.semver

\* regex.FindStringSubmatch(tag.Name): the match and its five groups, or nothing.
\* Index k + 1 here is submatch[k] in the source.
FindStringSubmatch(name) ==
    IF name.semver
    THEN <<name, name.major, name.minor, name.patch, "", name.build>>
    ELSE <<>>

\* NewSemverFromGitTag: [ok, v].  strconv.Atoi of a captured group of digits
\* fails only beyond the range of int; the build metadata group is not used.
NewSemverFromGitTag(tag) ==
    LET submatch == FindStringSubmatch(tag.Name) IN
    IF Len(submatch) < 4 THEN [ok |-> FALSE, v |-> Nil]
    ELSE NewSemver(submatch[2], submatch[3], submatch[4], "")

Tag(name, target, when) == [Name |-> name, Target |-> target, When |-> when]

\* tagger.NewTag(version, hash): an annotated tag named after the version, on
\* the given commit.
NewTag(version, hash) ==
    Tag(TagName("", version.Major, version.Minor, version.Patch, version.BuildMetadata),
        hash, 0)

(***************************************************************************)
(* The repository, as go-git shows it.                                     *)
(***************************************************************************)
Commit(hash, message, when) == [Hash |-> hash, Message |-> message, When |-> when]

\* r.Head(): the reference HEAD resolves to, an error in a repository without
\* commits.
RepoHead(cs) ==
    IF cs = <<>> THEN [err |-> TRUE, Hash |-> 0] ELSE [err |-> FALSE, Hash |-> cs[1].Hash]

\* git.LogOptions: Since is nil unless set.
NoSince == [set |-> FALSE, when |-> 0]

Since(when) == [set |-> TRUE, when |-> when]

\* r.Log(logOptions): an error when HEAD does not resolve; else the commits
\* from HEAD on, newest first, without those whose date is before Since.
Log(cs, logOptions) ==
    IF RepoHead(cs).err THEN [err |-> TRUE, commits |-> <<>>]
    ELSE [err |-> FALSE,
          commits |-> SelectSeq(cs, LAMBDA c :
                          ~(logOptions.set /\ c.When < logOptions.when))]

(***************************************************************************)
(* fetchLatestSemverTag                                                    *)
(***************************************************************************)
\* tags.ForEach: the tags whose name matches, in iteration order.
SemverTags(ts) == SelectSeq(ts, LAMBDA t : MatchString(t.Name))

RECURSIVE LatestLoopTies(_, _, _)
LatestLoopTies(semverTags, i, latest) ==
    IF i > Len(semverTags) THEN [err |-> FALSE, tag |-> latest]
    ELSE LET current == NewSemverFromGitTag(semverTags[i]) IN
         IF ~current.ok THEN [err |-> TRUE, tag |-> Nil]
         ELSE IF i = 1 THEN LatestLoopTies(semverTags, i + 1, semverTags[i])
         ELSE LET old == NewSemverFromGitTag(latest) IN
              IF ~old.ok THEN [err |-> TRUE, tag |-> Nil]
              ELSE IF Precedence(current.v, old.v) >= 0
                   THEN LatestLoopTies(semverTags, i + 1, semverTags[i])
                   ELSE LatestLoopTies(semverTags, i + 1, latest)

\* The loop over semverTags from index i on (1-based), latestSemverTag so far.
RECURSIVE LatestLoop(_, _, _)
LatestLoop(semverTags, i, latest) ==
    IF i > Len(semverTags) THEN [err |-> FALSE, tag |-> latest]
    ELSE LET current == NewSemverFromGitTag(semverTags[i]) IN
         IF ~current.ok THEN [err |-> TRUE, tag |-> Nil]
         ELSE IF i = 1 THEN LatestLoop(semverTags, i + 1, semverTags[i])
         ELSE LET old == NewSemverFromGitTag(latest) IN
              IF ~old.ok THEN [err |-> TRUE, tag |-> Nil]
              ELSE IF Precedence(current.v, old.v) = 1
                   THEN LatestLoop(semverTags, i + 1, semverTags[i])
                   ELSE LatestLoop(semverTags, i + 1, latest)

FetchNoHeadCheck(ts, cs) ==
    LET semverTags == SemverTags(ts) IN
    IF Len(semverTags) = 0
    THEN [err |-> FALSE, tag |-> NewTag(NewSemver(0, 0, 0, "").v, RepoHead(cs).Hash)]
    ELSE IF Len(semverTags) = 1 THEN [err |-> FALSE, tag |-> semverTags[1]]
    ELSE LatestLoop(semverTags, 1, Nil)

\* fetchLatestSemverTag(r): [err, tag].
fetchLatestSemverTag(ts, cs) ==
    LET semverTags == SemverTags(ts) IN
    IF Len(semverTags) = 0
    THEN LET head == RepoHead(cs)
             version == NewSemver(0, 0, 0, "")
         IN  IF head.err THEN [err |-> TRUE, tag |-> Nil]
             ELSE IF ~version.ok THEN [err |-> TRUE, tag |-> Nil]
             ELSE [err |-> FALSE, tag |-> NewTag(version.v, head.Hash)]
    ELSE IF Len(semverTags) = 1 THEN [err |-> FALSE, tag |-> semverTags[1]]
    ELSE LatestLoop(semverTags, 1, Nil)

(***************************************************************************)
(* Commit messages and conventionalCommitRegex.                            *)
(* A message is kept as what the regular expression sees in it: the token  *)
(* it starts with, an optional "(scope)", whether "!" follows, whether     *)
(* ": " and a description character follow that, and whether the text      *)
(* BREAKING CHANGE occurs somewhere in it.                                 *)
(***************************************************************************)
Message(type, scope, bang, sep, text) ==
    [type |-> type, scope |-> scope, bang |-> bang, sep |-> sep, text |-> text]

\* conventionalCommitRegex.MatchString(commit.Message)
MatchConventional(message) == message.type \in CommitTypes /\ message.sep

\* conventionalCommitRegex.FindStringSubmatch(commit.Message): the pattern ends
\* in ([\s\S]*), so the match is the whole message.  Index k + 1 here is
\* submatch[k] in the source.
FindCommitSubmatch(message) ==
    <<message, message.type, message.scope, IF message.bang THEN "!" ELSE "">>

BreakingChangeBangOnly(message) == FindCommitSubmatch(message)[4] = "!"

\* strings.Contains(submatch[3], "!") || strings.Contains(submatch[0], "BREAKING CHANGE")
BreakingChange(message) ==
    LET submatch == FindCommitSubmatch(message) IN
    submatch[4] = "!" \/ submatch[1].text

ApplyRulePatchUnflagged(rule, v) ==
    CASE rule.ReleaseType = "patch" -> [semver |-> BumpPatch(v.semver), newRelease |-> v.newRelease]
      [] rule.ReleaseType = "minor" -> [semver |-> BumpMinor(v.semver), newRelease |-> TRUE]
      [] rule.ReleaseType = "major" -> [semver |-> BumpMajor(v.semver), newRelease |-> TRUE]
      [] OTHER -> v

\* The switch on rule.ReleaseType; v is [semver, newRelease].
ApplyRule(rule, v) ==
    CASE rule.ReleaseType = "patch" -> [semver |-> BumpPatch(v.semver), newRelease |-> TRUE]
      [] rule.ReleaseType = "minor" -> [semver |-> BumpMinor(v.semver), newRelease |-> TRUE]
      [] rule.ReleaseType = "major" -> [semver |-> BumpMajor(v.semver), newRelease |-> TRUE]
      [] OTHER -> v

RECURSIVE ApplyRulesFirstOnly(_, _, _, _)
ApplyRulesFirstOnly(rules, k, commitType, v) ==
    IF k > Len(rules) THEN v
    ELSE IF commitType # rules[k].CommitType
         THEN ApplyRulesFirstOnly(rules, k + 1, commitType, v)
         ELSE ApplyRule(rules[k], v)

\* The loop over c.releaseRules.Rules from index k on (1-based).
RECURSIVE ApplyRules(_, _, _, _)
ApplyRules(rules, k, commitType, v) ==
    IF k > Len(rules) THEN v
    ELSE IF commitType # rules[k].CommitType
         THEN ApplyRules(rules, k + 1, commitType, v)
         ELSE ApplyRules(rules, k + 1, commitType, ApplyRule(rules[k], v))

KeepOrder(q) == q

\* The swap loop that turns the log oldest first.
Reverse(q) == [k \in 1..Len(q) |-> q[Len(q) + 1 - k]]

SinceNever(v, tag) == NoSince

\* logOptions: Since is the tag's date unless the version is zero.
LogOptionsFor(v, tag) == IF ~IsZero(v) THEN Since(tag.When) ELSE NoSince

(***************************************************************************)
(* Inputs.                                                                 *)
(***************************************************************************)
SeqsUpTo(S, n) == UNION {[1..k -> S] : k \in 0..n}

\* Sequences without repetition: tag names are unique in a repository.
DistinctSeqsUpTo(S, n) ==
    {q \in SeqsUpTo(S, n) : \A a, b \in 1..Len(q) : a # b => q[a] # q[b]}

\* Commit messages: "fix: a", "feat(api): b", "feat!: x", "fix: a" with a
\* BREAKING CHANGE footer, and two that do not match the grammar although they
\* carry both markers ("wip!: ... BREAKING CHANGE", "feat! BREAKING CHANGE").
MsgFix == Message("fix", "", FALSE, TRUE, FALSE)
MsgFeat == Message("feat", "(api)", FALSE, TRUE, FALSE)
MsgBang == Message("feat", "", TRUE, TRUE, FALSE)
MsgFooter == Message("fix", "", FALSE, TRUE, TRUE)
MsgOtherType == Message("wip", "", TRUE, TRUE, TRUE)
MsgNoColon == Message("feat", "", TRUE, FALSE, TRUE)

Messages == {MsgFix, MsgFeat, MsgBang, MsgFooter, MsgOtherType, MsgNoColon}

\* Commit and tagger dates.
Dates == {10, 20}

\* Commit logs of n commits, newest first: dates do not increase along the log,
\* and a commit's hash is its position counted from the oldest.
LogsOfLen(n) ==
    {[p \in 1..n |-> Commit(n + 1 - p, m[p], w[p])] :
        m \in [1..n -> Messages],
        w \in {d \in [1..n -> Dates] : \A a, b \in 1..n : a < b => d[a] >= d[b]}}

CommitLogs == UNION {LogsOfLen(n) : n \in 0..MaxCommits}

\* Tags of the computing specification: a real 0.0.0, two releases and a name
\* outside the grammar.
TagPool ==
    {Tag(TagName("", 0, 0, 0, ""), 1, 20),
     Tag(TagName("v", 1, 0, 0, ""), 1, 10),
     Tag(TagName("v", 1, 1, 0, ""), 1, 20),
     Tag(OtherName("latest"), 1, 20)}

\* Tags of the resolving specification: three releases, a second name of the
\* highest one and a name outside the grammar.
ResolvePool ==
    {Tag(TagName("v", 1, 0, 0, ""), 1, 10),
     Tag(TagName("v", 1, 2, 0, ""), 1, 10),
     Tag(TagName("v", 2, 0, 0, ""), 1, 20),
     Tag(TagName("", 2, 0, 0, "b1"), 1, 20),
     Tag(OtherName("latest"), 1, 20)}

\* Release rule documents of the computing specification.
RuleLists ==
    {<<ReleaseRule("feat", "minor"), ReleaseRule("fix", "patch")>>,
     <<ReleaseRule("feat", "minor"), ReleaseRule("feat", "patch")>>,
     <<ReleaseRule("fix", "major")>>,
     <<>>}

Document(rules) == [object |-> TRUE, hasRules |-> TRUE, rules |-> rules]

\* A reader without a JSON object, and an object without "releaseRules".
NoDocument == [object |-> FALSE, hasRules |-> FALSE, rules |-> <<>>]
NoRulesDocument == [object |-> TRUE, hasRules |-> FALSE, rules |-> <<>>]

\* Rule documents of the rules specification: any list of rules over these
\* field values ("" is a missing field).
DocRules ==
    {ReleaseRule(t, r) : t \in {"feat", "fix", "wip", ""},
                         r \in {"major", "minor", "patch", "none", ""}}

Documents ==
    {NoDocument, NoRulesDocument} \cup {Document(q) : q \in SeqsUpTo(DocRules, MaxDocRules)}

Operands ==
    {Semver(a, b, c, m) : a \in 0..MaxOperand, b \in 0..MaxOperand, c \in 0..MaxOperand,
                          m \in {"", "b1"}}

Zero == Semver(0, 0, 0, "")

\* The variables a specification does not use keep these values.
RulesIdle == doc = NoDocument /\ analyzer = Nil
RepoIdle == tags = <<>> /\ commits = <<>>
CallIdle ==
    /\ latestSemverTag = Nil /\ semver = Zero /\ newRelease = FALSE
    /\ history = <<>> /\ idx = 0 /\ returned = <<>>
ValuesIdle == s1 = Zero /\ s2 = Zero /\ s3 = Zero /\ cmp = Nil /\ lastBump = Nil

rulesVars == <<doc, analyzer>>
repoVars == <<tags, commits>>
callVars == <<latestSemverTag, semver, newRelease, history, idx, returned>>
valueVars == <<s1, s2, s3, cmp, lastBump>>

(***************************************************************************)
(* SpecBump: BumpPatch, BumpMinor and BumpMajor on the value s1.           *)
(***************************************************************************)
InitBump ==
    /\ RulesIdle /\ RepoIdle /\ CallIdle
    /\ pc = "bump"
    /\ s1 \in Operands /\ s2 = Zero /\ s3 = Zero /\ cmp = Nil
    /\ lastBump = [op |-> "none", before |-> s1]

CallBumpPatch ==
    /\ pc = "bump" /\ s1.Patch < MaxComponent
    /\ s1' = BumpPatch(s1)
    /\ lastBump' = [op |-> "patch", before |-> s1]
    /\ UNCHANGED <<rulesVars, repoVars, callVars, pc, s2, s3, cmp>>

CallBumpMinor ==
    /\ pc = "bump" /\ s1.Minor < MaxComponent
    /\ s1' = BumpMinor(s1)
    /\ lastBump' = [op |-> "minor", before |-> s1]
    /\ UNCHANGED <<rulesVars, repoVars, callVars, pc, s2, s3, cmp>>

CallBumpMajor ==
    /\ pc = "bump" /\ s1.Major < MaxComponent
    /\ s1' = BumpMajor(s1)
    /\ lastBump' = [op |-> "major", before |-> s1]
    /\ UNCHANGED <<rulesVars, repoVars, callVars, pc, s2, s3, cmp>>

NextBump == CallBumpPatch \/ CallBumpMinor \/ CallBumpMajor

SpecBump == InitBump /\ [][NextBump]_vars

(***************************************************************************)
(* SpecPrecedence: Precedence on the values s1, s2, s3.                    *)
(***************************************************************************)
InitPrecedence ==
    /\ RulesIdle /\ RepoIdle /\ CallIdle
    /\ pc = "compare"
    /\ s1 \in Operands /\ s2 \in Operands /\ s3 \in Operands
    /\ cmp = Nil /\ lastBump = Nil

WithoutBuild(s) == [s EXCEPT !.BuildMetadata = ""]

CallPrecedence ==
    /\ pc = "compare"
    /\ cmp' = [ab |-> Precedence(s1, s2), ba |-> Precedence(s2, s1),
               bc |-> Precedence(s2, s3), ac |-> Precedence(s1, s3),
               abPlain |-> Precedence(WithoutBuild(s1), WithoutBuild(s2))]
    /\ pc' = "compared"
    /\ UNCHANGED <<rulesVars, repoVars, callVars, s1, s2, s3, lastBump>>

NextPrecedence == CallPrecedence

SpecPrecedence == InitPrecedence /\ [][NextPrecedence]_vars

(***************************************************************************)
(* SpecRules: NewCommitAnalyzer on a release rule document.                *)
(***************************************************************************)
InitRules ==
    /\ doc \in Documents /\ analyzer = Nil
    /\ RepoIdle /\ CallIdle /\ ValuesIdle
    /\ pc = "new"

\* NewCommitAnalyzer(releaseRulesReader): the analyzer, or nil and an error.
NewCommitAnalyzer ==
    /\ pc = "new"
    /\ analyzer' = CommitAnalyzerOf(doc)
    /\ pc' = IF ParseReleaseRules(doc).err THEN "failed" ELSE "constructed"
    /\ UNCHANGED <<doc, repoVars, callVars, valueVars>>

NextRules == NewCommitAnalyzer

SpecRules == InitRules /\ [][NextRules]_vars

(***************************************************************************)
(* SpecTags: fetchLatestSemverTag on a repository.                         *)
(***************************************************************************)
InitTags ==
    /\ RulesIdle /\ ValuesIdle
    /\ tags \in DistinctSeqsUpTo(ResolvePool, MaxResolveTags)
    /\ commits \in LogsOfLen(0) \cup {<<Commit(1, MsgFix, 10)>>}
    /\ CallIdle
    /\ pc = "fetch"

CallFetchLatestSemverTag ==
    /\ pc = "fetch"
    /\ LET fetched == fetchLatestSemverTag(tags, commits) IN
       /\ latestSemverTag' = fetched.tag
       /\ pc' = IF fetched.err THEN "failed" ELSE "fetched"
    /\ UNCHANGED <<rulesVars, repoVars, semver, newRelease, history, idx, returned,
                   valueVars>>

NextTags == CallFetchLatestSemverTag

SpecTags == InitTags /\ [][NextTags]_vars

(***************************************************************************)
(* Spec: ComputeNewSemverNumber, called up to MaxRuns times on one         *)
(* repository by one analyzer.  The repository is only read.               *)
(***************************************************************************)
Init ==
    /\ doc \in {Document(q) : q \in RuleLists}
    /\ analyzer = CommitAnalyzerOf(doc)
    /\ analyzer # Nil
    /\ tags \in DistinctSeqsUpTo(TagPool, MaxTags)
    /\ commits \in CommitLogs
    /\ CallIdle /\ ValuesIdle
    /\ pc = "idle"

\* What a call returns: (semver, newRelease, err).
Returned(v, release, err) == [semver |-> v, newRelease |-> release, err |-> err]

\* Lines 153-156: fetchLatestSemverTag fails and the call returns its error.
ComputeFetchError ==
    /\ pc = "idle" /\ Len(returned) < MaxRuns
    /\ LET fetched == fetchLatestSemverTag(tags, commits) IN
       /\ fetched.err
       /\ latestSemverTag' = fetched.tag
       /\ returned' = Append(returned, Returned(Nil, FALSE, "fetch"))
    /\ UNCHANGED <<rulesVars, repoVars, pc, semver, newRelease, history, idx, valueVars>>

\* Lines 170-173: r.Log fails and logger.Fatalf ends the process.
ComputeLogFatal ==
    /\ pc = "idle" /\ Len(returned) < MaxRuns
    /\ LET fetched == fetchLatestSemverTag(tags, commits) IN
       /\ ~fetched.err
       /\ LET parsed == NewSemverFromGitTag(fetched.tag) IN
          /\ parsed.ok
          /\ Log(commits, LogOptionsFor(parsed.v, fetched.tag)).err
          /\ latestSemverTag' = fetched.tag
          /\ semver' = parsed.v
    /\ newRelease' = FALSE
    /\ pc' = "exited"
    /\ UNCHANGED <<rulesVars, repoVars, history, idx, returned, valueVars>>

\* Lines 153-185: the latest tag, its version, the log since it, oldest first.
\* (The error return of lines 159-162 needs a tag that matches the grammar and
\* does not convert, that is a component beyond the range of int.)
ComputeBegin ==
    /\ pc = "idle" /\ Len(returned) < MaxRuns
    /\ LET fetched == fetchLatestSemverTag(tags, commits) IN
       /\ ~fetched.err
       /\ LET parsed == NewSemverFromGitTag(fetched.tag) IN
          /\ parsed.ok
          /\ LET commitHistory == Log(commits, LogOptionsFor(parsed.v, fetched.tag)) IN
             /\ ~commitHistory.err
             /\ history' = Reverse(commitHistory.commits)
          /\ latestSemverTag' = fetched.tag
          /\ semver' = parsed.v
    /\ newRelease' = FALSE
    /\ idx' = 0
    /\ pc' = "loop"
    /\ UNCHANGED <<rulesVars, repoVars, returned, valueVars>>

\* Lines 189-191: the message does not match, continue.
LoopSkip ==
    /\ pc = "loop" /\ idx < Len(history)
    /\ ~MatchConventional(history[idx + 1].Message)
    /\ idx' = idx + 1
    /\ UNCHANGED <<rulesVars, repoVars, pc, latestSemverTag, semver, newRelease, history,
                   returned, valueVars>>

LoopBreakingContinue ==
    /\ pc = "loop" /\ idx < Len(history)
    /\ MatchConventional(history[idx + 1].Message)
    /\ BreakingChange(history[idx + 1].Message)
    /\ semver' = BumpMajor(semver)
    /\ newRelease' = TRUE
    /\ idx' = idx + 1
    /\ UNCHANGED <<rulesVars, repoVars, pc, latestSemverTag, history, returned, valueVars>>

\* Lines 199-204: a breaking change bumps major and leaves the loop.
LoopBreaking ==
    /\ pc = "loop" /\ idx < Len(history)
    /\ MatchConventional(history[idx + 1].Message)
    /\ BreakingChange(history[idx + 1].Message)
    /\ semver' = BumpMajor(semver)
    /\ newRelease' = TRUE
    /\ idx' = idx + 1
    /\ pc' = "break"
    /\ UNCHANGED <<rulesVars, repoVars, latestSemverTag, history, returned, valueVars>>

\* Lines 206-228: every rule of the commit's type is applied.
LoopRules ==
    /\ pc = "loop" /\ idx < Len(history)
    /\ MatchConventional(history[idx + 1].Message)
    /\ ~BreakingChange(history[idx + 1].Message)
    /\ LET commitType == FindCommitSubmatch(history[idx + 1].Message)[2]
           after == ApplyRules(analyzer.releaseRules.Rules.elems, 1, commitType,
                               [semver |-> semver, newRelease |-> newRelease])
       IN  /\ semver' = after.semver
           /\ newRelease' = after.newRelease
    /\ idx' = idx + 1
    /\ UNCHANGED <<rulesVars, repoVars, pc, latestSemverTag, history, returned, valueVars>>

\* Line 236: the loop is over (err is nil at line 232).
ComputeReturn ==
    /\ \/ pc = "loop" /\ idx = Len(history)
       \/ pc = "break"
    /\ returned' = Append(returned, Returned(semver, newRelease, ""))
    /\ pc' = "idle"
    /\ UNCHANGED <<rulesVars, repoVars, latestSemverTag, semver, newRelease, history, idx,
                   valueVars>>

Next ==
    \/ ComputeFetchError
    \/ ComputeLogFatal
    \/ ComputeBegin
    \/ LoopSkip
    \/ LoopBreaking
    \/ LoopRules
    \/ ComputeReturn

Spec == Init /\ [][Next]_vars

(***************************************************************************)
(* Properties.  The definitions of this part state what is expected; they  *)
(* are written from the documented behaviour, not from the operators above.*)
(***************************************************************************)
\* The last value returned, and the state right after a call that returned a
\* version: latestSemverTag, history and idx are still those of that call.
LastCall == returned[Len(returned)]
Completed == pc = "idle" /\ returned # <<>> /\ LastCall.err = ""

\* The version a tag name denotes.
VersionOf(tag) == Semver(tag.Name.major, tag.Name.minor, tag.Name.patch, "")

\* Lexicographic order on (major, minor, patch).
Higher(a, b) ==
    \/ a.Major > b.Major
    \/ a.Major = b.Major /\ a.Minor > b.Minor
    \/ a.Major = b.Major /\ a.Minor = b.Minor /\ a.Patch > b.Patch
SameTriple(a, b) == a.Major = b.Major /\ a.Minor = b.Minor /\ a.Patch = b.Patch

\* The grammar and the breaking markers of a commit message.
Classified(m) == m.type \in CommitTypes /\ m.sep
Breaking(m) == Classified(m) /\ (m.bang \/ m.text)

\* The release types of the rules for a commit type, in rule-list order.
RECURSIVE ReleasesFor(_, _)
ReleasesFor(rules, type) ==
    IF rules = <<>> THEN <<>>
    ELSE (IF rules[1].CommitType = type THEN <<rules[1].ReleaseType>> ELSE <<>>)
         \o ReleasesFor(Tail(rules), type)

\* The bumps a sequence of commits asks for, first commit first; a breaking
\* commit asks for breakingBumps.
RECURSIVE BumpsOf(_, _, _)
BumpsOf(cs, rules, breakingBumps) ==
    IF cs = <<>> THEN <<>>
    ELSE (IF ~Classified(cs[1].Message) THEN <<>>
          ELSE IF Breaking(cs[1].Message) THEN breakingBumps
          ELSE ReleasesFor(rules, cs[1].Message.type))
         \o BumpsOf(Tail(cs), rules, breakingBumps)

\* The version a sequence of bumps leads to, in closed form: a component is
\* counted up from the base unless a more significant bump reset it, and
\* then counts the bumps after the last reset.
LastOf(bumps, kinds) ==
    LET at == {k \in 1..Len(bumps) : bumps[k] \in kinds} IN
    IF at = {} THEN 0 ELSE CHOOSE k \in at : \A o \in at : o <= k
CountFrom(bumps, kind, from) == Cardinality({k \in from..Len(bumps) : bumps[k] = kind})
Bumped(base, bumps) ==
    LET lastMajor == LastOf(bumps, {"major"})
        lastReset == LastOf(bumps, {"major", "minor"})
    IN  Semver(base.Major + CountFrom(bumps, "major", 1),
               (IF lastMajor = 0 THEN base.Minor ELSE 0)
                   + CountFrom(bumps, "minor", lastMajor + 1),
               (IF lastReset = 0 THEN base.Patch ELSE 0)
                   + CountFrom(bumps, "patch", lastReset + 1),
               base.BuildMetadata)

Rules == analyzer.releaseRules.Rules.elems
ExampleRules == <<ReleaseRule("feat", "minor"), ReleaseRule("fix", "patch")>>
TwoFeatRules == <<ReleaseRule("feat", "minor"), ReleaseRule("feat", "patch")>>
MessagesOf(cs) == [k \in 1..Len(cs) |-> cs[k].Message]

\* The index in history of the first breaking commit, 0 without one.
FirstBreaking ==
    LET at == {k \in 1..Len(history) : Breaking(history[k].Message)} IN
    IF at = {} THEN 0 ELSE CHOOSE k \in at : \A o \in at : k <= o

\* C1: the bump loop stops at the first breaking commit (oldest first): while
\* the loop runs no commit consumed so far is breaking, and once it has left,
\* exactly the commits up to the first breaking one were consumed, major is
\* one more than the commits before it left it, minor and patch are 0 and
\* newRelease is true; from 1.0.0 with {feat->minor, fix->patch} the history
\* ["feat!: x", "fix: c"] returns (2.0.0, true).
C1_BreakingStops ==
    /\ pc = "loop" => \A k \in 1..idx : ~Breaking(history[k].Message)
    /\ (pc = "break" \/ Completed) /\ FirstBreaking # 0 =>
          /\ idx = FirstBreaking
          /\ newRelease
          /\ semver = Semver(Bumped(VersionOf(latestSemverTag),
                                    BumpsOf(SubSeq(history, 1, FirstBreaking - 1),
                                            Rules, <<>>)).Major + 1, 0, 0, "")
    /\ Completed /\ FirstBreaking # 0 =>
          LastCall = Returned(semver, TRUE, "")
    /\ Completed /\ VersionOf(latestSemverTag) = Semver(1, 0, 0, "")
         /\ Rules = ExampleRules /\ MessagesOf(history) = <<MsgBang, MsgFix>> =>
          LastCall = Returned(Semver(2, 0, 0, ""), TRUE, "")

C1_Witness ==
    /\ Completed /\ VersionOf(latestSemverTag) = Semver(1, 0, 0, "")
    /\ Rules = ExampleRules /\ MessagesOf(history) = <<MsgBang, MsgFix>>
    /\ idx = 1

\* The log the call retrieved (newest first), and the same oldest first.
Retrieved ==
    Log(commits, IF IsZero(VersionOf(latestSemverTag)) THEN NoSince
                 ELSE Since(latestSemverTag.When)).commits
OldestFirst == [k \in 1..Len(Retrieved) |-> Retrieved[Len(Retrieved) + 1 - k]]

\* C2: without a breaking commit in the log, the version returned is the fold
\* of the bumps over the retrieved commits taken oldest first, commits outside
\* the grammar contributing nothing; from 1.0.0 with {feat->minor, fix->patch}
\* the oldest-first history ["fix: a", "feat: b"] returns (1.1.0, true).
C2_FoldOldestFirst ==
    /\ Completed /\ (\A k \in 1..Len(Retrieved) : ~Breaking(Retrieved[k].Message)) =>
          LastCall.semver = Bumped(VersionOf(latestSemverTag),
                                   BumpsOf(OldestFirst, Rules, <<>>))
    /\ Completed /\ VersionOf(latestSemverTag) = Semver(1, 0, 0, "")
         /\ Rules = ExampleRules /\ MessagesOf(OldestFirst) = <<MsgFix, MsgFeat>> =>
          LastCall = Returned(Semver(1, 1, 0, ""), TRUE, "")

C2_Witness ==
    /\ Completed /\ VersionOf(latestSemverTag) = Semver(1, 0, 0, "")
    /\ Rules = ExampleRules /\ MessagesOf(OldestFirst) = <<MsgFix, MsgFeat>>
    /\ LastCall.semver = Semver(1, 1, 0, "")

\* C3: a step of the loop on a classified commit that is not breaking applies
\* the bump of every rule of the commit's type, in rule-list order, each on
\* the version the previous one left.
C3_AllMatchingRules ==
    [][pc = "loop" /\ idx < Len(history) /\ Classified(history[idx + 1].Message)
         /\ ~Breaking(history[idx + 1].Message) =>
            /\ semver' = Bumped(semver, ReleasesFor(Rules, history[idx + 1].Message.type))
            /\ idx' = idx + 1]_vars

\* With [feat->minor, feat->patch], the single commit "feat: x" leads from
\* 1.0.0 to 1.1.1.
C3_Witness ==
    /\ Completed /\ VersionOf(latestSemverTag) = Semver(1, 0, 0, "")
    /\ Rules = TwoFeatRules /\ MessagesOf(history) = <<MsgFeat>>
    /\ LastCall = Returned(Semver(1, 1, 1, ""), TRUE, "")

\* The candidates of the tag set, in iteration order.
Candidates == SelectSeq(tags, LAMBDA t : t.Name.semver)

\* C4: with two or more candidates fetchLatestSemverTag returns a candidate
\* that no candidate exceeds in (major, minor, patch), whatever the iteration
\* order, and every candidate seen before it is strictly lower; from
\* {v1.0.0, v1.2.0, v2.0.0} it returns v2.0.0.
C4_LatestTag ==
    pc # "fetch" /\ Len(Candidates) >= 2 =>
        /\ pc = "fetched"
        /\ \E k \in 1..Len(Candidates) :
              /\ latestSemverTag = Candidates[k]
              /\ \A o \in 1..Len(Candidates) :
                    ~Higher(VersionOf(Candidates[o]), VersionOf(Candidates[k]))
              /\ \A o \in 1..(k - 1) :
                    Higher(VersionOf(Candidates[k]), VersionOf(Candidates[o]))
        /\ {Candidates[k].Name : k \in 1..Len(Candidates)}
              = {TagName("v", 1, 0, 0, ""), TagName("v", 1, 2, 0, ""),
                 TagName("v", 2, 0, 0, "")}
           => latestSemverTag.Name = TagName("v", 2, 0, 0, "")

\* Two names of the highest version, v2.0.0 seen first, then a lower one.
C4_Witness ==
    /\ pc = "fetched"
    /\ Len(Candidates) = 3
    /\ Candidates[1].Name = TagName("v", 2, 0, 0, "")
    /\ Candidates[2].Name = TagName("", 2, 0, 0, "b1")
    /\ latestSemverTag = Candidates[1]

\* The repository has a semantic-version tag, the call found it, and no
\* commit is newer than it.
NothingNewer ==
    /\ Len(Candidates) >= 1
    /\ \E k \in 1..Len(tags) : latestSemverTag = tags[k]
    /\ \A k \in 1..Len(commits) : commits[k].When <= latestSemverTag.When

\* C5 as stated: whatever the version of the latest tag, two calls on a
\* repository without commits newer than that tag both return (current, false).
\* (Stated for the rule sets with at least one rule, those the documented
\* validation accepts.)
C5_IdempotentAnyVersion ==
    pc = "idle" /\ Len(returned) >= 2 /\ NothingNewer /\ Rules # <<>> =>
        \A k \in 1..Len(returned) :
            returned[k] = Returned(VersionOf(latestSemverTag), FALSE, "")

\* C5, amended: when the version of the latest tag is not 0.0.0 and every
\* commit is dated before that tag, every call returns (current, false).
C5_IdempotentAfterRelease ==
    /\ pc = "idle" /\ returned # <<>> /\ NothingNewer
         /\ ~SameTriple(VersionOf(latestSemverTag), Zero)
         /\ (\A k \in 1..Len(commits) : commits[k].When < latestSemverTag.When) =>
          \A k \in 1..Len(returned) :
              returned[k] = Returned(VersionOf(latestSemverTag), FALSE, "")
    /\ NothingNewer /\ ~SameTriple(VersionOf(latestSemverTag), Zero)
         /\ commits # <<>>
         /\ (\A k \in 1..Len(commits) : commits[k].When < latestSemverTag.When) =>
          pc # "exited" /\ (pc = "loop" => history = <<>>)

\* Two calls returned, on a repository with a classified commit older than
\* its tag v1.1.0.
C5_Witness ==
    /\ pc = "idle" /\ Len(returned) = 2 /\ NothingNewer
    /\ VersionOf(latestSemverTag) = Semver(1, 1, 0, "")
    /\ Len(commits) = 2 /\ commits[1].Message = MsgFeat /\ commits[1].When = 10
    /\ returned[1] = returned[2]

\* C6 as stated: NewCommitAnalyzer fails, and returns no analyzer, on every
\* document without a rule list, with an empty rule list, or with a rule whose
\* type or release is outside its vocabulary.
C6_RejectsInvalid ==
    pc # "new"
      /\ \/ ~doc.object
         \/ ~doc.hasRules
         \/ doc.rules = <<>>
         \/ \E k \in 1..Len(doc.rules) :
               \/ doc.rules[k].CommitType \notin CommitTypes
               \/ doc.rules[k].ReleaseType \notin ReleaseTypes
      => pc = "failed" /\ analyzer = Nil

\* C7: when no tag name matches the grammar, a repository without head makes
\* every call fail with no tag, and a repository with a head gets the
\* synthetic tag 0.0.0 on its head commit, the version starts at 0.0.0 and
\* the history is the complete log, oldest first.
C7_NoTagStartsAtZero ==
    Len(Candidates) = 0 =>
        /\ commits = <<>> =>
              /\ pc = "idle" /\ latestSemverTag = Nil
              /\ \A k \in 1..Len(returned) : returned[k] = Returned(Nil, FALSE, "fetch")
        /\ commits # <<>> /\ (pc # "idle" \/ returned # <<>>) =>
              /\ pc # "exited"
              /\ latestSemverTag.Name = TagName("", 0, 0, 0, "")
              /\ latestSemverTag.Target = commits[1].Hash
              /\ Len(history) = Len(commits)
              /\ \A k \in 1..Len(commits) : history[k] = commits[Len(commits) + 1 - k]
              /\ idx = 0 => semver = Zero
              /\ \A k \in 1..Len(returned) : returned[k].err = ""

\* A call returned 0.1.0 on a repository whose only tag is outside the
\* grammar and whose two commits are dated 10 and 20.
C7_Witness ==
    /\ Completed /\ Len(tags) = 1 /\ Len(Candidates) = 0
    /\ Len(commits) = 2 /\ commits[1].When = 20 /\ commits[2].When = 10
    /\ Rules = ExampleRules /\ LastCall.semver = Semver(0, 1, 0, "")

\* A call failed on a repository without commits.
C7_WitnessNoHead ==
    /\ Len(Candidates) = 0 /\ commits = <<>> /\ returned # <<>>

\* C8: Precedence is a strict total order on (major, minor, patch): the result
\* is 1, -1 or 0, a.Precedence(b) = -b.Precedence(a), it is 0 exactly when the
\* three components are equal, it is transitive, and build metadata does not
\* change it.
C8_PrecedenceTotalOrder ==
    pc = "compared" =>
        /\ cmp.ab \in {-1, 0, 1}
        /\ cmp.ab = -cmp.ba
        /\ cmp.ab = 0 <=> SameTriple(s1, s2)
        /\ cmp.ab = 1 /\ cmp.bc = 1 => cmp.ac = 1
        /\ cmp.ab = -1 /\ cmp.bc = -1 => cmp.ac = -1
        /\ cmp.ab = 0 => cmp.ac = cmp.bc
        /\ cmp.bc = 0 => cmp.ac = cmp.ab
        /\ cmp.abPlain = cmp.ab

\* 0.0.1+b1 against 0.0.1 and 0.1.0: equal to the first although the build
\* metadata differs, lower than the second.
C8_Witness ==
    /\ pc = "compared"
    /\ s1 = Semver(0, 0, 1, "b1") /\ s2 = Semver(0, 0, 1, "") /\ s3 = Semver(0, 1, 0, "")
    /\ cmp.ab = 0 /\ cmp.bc = -1 /\ cmp.ac = -1

\* C9: BumpPatch adds 1 to patch and keeps major and minor; BumpMinor adds 1
\* to minor, sets patch to 0 and keeps major; BumpMajor adds 1 to major and
\* sets minor and patch to 0; none changes the build metadata, and the three
\* components stay >= 0.
C9_BumpsCascade ==
    pc = "bump" =>
        /\ s1.Major >= 0 /\ s1.Minor >= 0 /\ s1.Patch >= 0
        /\ lastBump.op # "none" => s1.BuildMetadata = lastBump.before.BuildMetadata
        /\ lastBump.op = "patch" =>
              /\ s1.Patch = lastBump.before.Patch + 1
              /\ s1.Minor = lastBump.before.Minor
              /\ s1.Major = lastBump.before.Major
        /\ lastBump.op = "minor" =>
              /\ s1.Patch = 0
              /\ s1.Minor = lastBump.before.Minor + 1
              /\ s1.Major = lastBump.before.Major
        /\ lastBump.op = "major" =>
              /\ s1.Patch = 0
              /\ s1.Minor = 0
              /\ s1.Major = lastBump.before.Major + 1

\* BumpMinor on 1.0.1+b1.
C9_Witness ==
    /\ pc = "bump" /\ lastBump.op = "minor"
    /\ lastBump.before = Semver(1, 0, 1, "b1") /\ s1 = Semver(1, 1, 0, "b1")

\* The version the call would return if the loop went on after the major bump
\* of a breaking commit, every later commit evaluated as well.
Continued == Bumped(VersionOf(latestSemverTag), BumpsOf(history, Rules, <<"major">>))

\* The bumps the commits after the first breaking one ask for.
LaterBumps ==
    BumpsOf(SubSeq(history, FirstBreaking + 1, Len(history)), Rules, <<"major">>)

\* C10 as stated: the version returned after stopping at the first breaking
\* commit equals the version evaluating the later commits too would return.
\* (Stated for the rule sets with at least one rule, those the documented
\* validation accepts.)
C10_StopChangesNothing ==
    Completed /\ FirstBreaking # 0 /\ Rules # <<>> => LastCall.semver = Continued

\* C10, amended: the version returned equals the continued one exactly when no
\* commit after the first breaking one is breaking or matches a rule;
\* otherwise the continued version is strictly higher.
C10_StopEqualsOnlyWithoutLaterBumps ==
    Completed /\ FirstBreaking # 0 =>
        /\ LaterBumps = <<>> => LastCall.semver = Continued
        /\ LaterBumps # <<>> => Higher(Continued, LastCall.semver)

\* From 1.0.0 with {feat->minor, fix->patch}, ["feat!: x", "fix: c"] returns
\* 2.0.0 where going on would give 2.0.1.
C10_Witness ==
    /\ Completed /\ VersionOf(latestSemverTag) = Semver(1, 0, 0, "")
    /\ Rules = ExampleRules /\ MessagesOf(history) = <<MsgBang, MsgFix>>
    /\ LastCall.semver = Semver(2, 0, 0, "") /\ Continued = Semver(2, 0, 1, "")

\* C11: of every call that returns a version, newRelease is false exactly when
\* the version equals the one parsed from the latest tag, newRelease is true
\* exactly when the version is strictly higher than it, and the version is
\* never lower than it.
C11_FlagMatchesVersion ==
    Completed =>
        /\ \A k \in 1..Len(returned) :
              /\ returned[k].newRelease \in BOOLEAN
              /\ ~returned[k].newRelease <=> returned[k].semver = VersionOf(latestSemverTag)
              /\ returned[k].newRelease <=>
                    Higher(returned[k].semver, VersionOf(latestSemverTag))
              /\ ~Higher(VersionOf(latestSemverTag), returned[k].semver)
        /\ LastCall = Returned(semver, newRelease, "")

\* From v1.0.0, "fix: a" under {feat->minor, fix->patch} returned (1.0.1, true),
\* after a commit outside the grammar that changed nothing.
C11_Witness ==
    /\ Completed /\ VersionOf(latestSemverTag) = Semver(1, 0, 0, "")
    /\ Rules = ExampleRules /\ MessagesOf(history) = <<MsgOtherType, MsgFix>>
    /\ LastCall = Returned(Semver(1, 0, 1, ""), TRUE, "")

====
